---- MODULE Spec2Model ----
(***************************************************************************)
(* Model of tools/dsf2csv.c: the row accumulator (sample_callback), the    *)
(* CSV projection (write_sample_to_csv) and the driver (main).             *)
(*                                                                         *)
(* A C double is modelled as a fixed-point integer at the precision the    *)
(* projection prints it with: depth, ppo2, cns, setpoint and deco_depth in *)
(* hundredths, temperature in tenths.  The unsigned int fields are only    *)
(* ever assigned from unsigned int payloads, so no arithmetic can wrap.    *)
(***************************************************************************)
EXTENDS Integers, Sequences, FiniteSets, TLC

\* ---- bounds of the model ------------------------------------------------

\* The decoder delivers at most MaxEvents sample events in one run.
MaxEvents == 4

\* With the wide payloads of WideEvents the decoder delivers at most
\* MaxWideEvents sample events in one run.
MaxWideEvents == 2

\* The short input paths have at most MaxPathLen characters.
MaxPathLen == 4

\* The standalone converter reads at most MaxDsSamples samples in one run.
MaxDsSamples == 5

\* ---- libdivecomputer names used by dsf2csv.c ----------------------------

DC_SAMPLE_TIME == "DC_SAMPLE_TIME"
DC_SAMPLE_DEPTH == "DC_SAMPLE_DEPTH"
DC_SAMPLE_TEMPERATURE == "DC_SAMPLE_TEMPERATURE"
DC_SAMPLE_PPO2 == "DC_SAMPLE_PPO2"
DC_SAMPLE_CNS == "DC_SAMPLE_CNS"
DC_SAMPLE_SETPOINT == "DC_SAMPLE_SETPOINT"
DC_SAMPLE_DECO == "DC_SAMPLE_DECO"
\* a sample type the callback has no branch for
DC_SAMPLE_HEARTBEAT == "DC_SAMPLE_HEARTBEAT"

DC_DECO_NDL == "DC_DECO_NDL"
DC_DECO_SAFETYSTOP == "DC_DECO_SAFETYSTOP"
DC_DECO_DECOSTOP == "DC_DECO_DECOSTOP"
DC_DECO_DEEPSTOP == "DC_DECO_DEEPSTOP"

DC_STATUS_SUCCESS == "DC_STATUS_SUCCESS"
DC_STATUS_DATAFORMAT == "DC_STATUS_DATAFORMAT"

\* ---- sample_data_t ------------------------------------------------------

\* reset_sample_data: the values every field is set to.
reset_sample_data ==
    [time |-> 0, depth |-> -100, temperature |-> -9990, ppo2 |-> -100,
     cns |-> -100, setpoint |-> -100, deco_type |-> DC_DECO_NDL,
     deco_time |-> 0, deco_depth |-> 0, dirty |-> 0]

\* ---- the CSV projection -------------------------------------------------

Header ==
    <<"Time", "Depth", "Temperature", "PPO2", "CNS", "Setpoint",
      "DecoType", "DecoTime", "DecoDepth">>

Abs(n) == IF n < 0 THEN -n ELSE n

\* printf("%.2f") of a value held in hundredths.
Fmt2(v) ==
    LET a == Abs(v)
        f == a % 100
    IN  (IF v < 0 THEN "-" ELSE "") \o ToString(a \div 100) \o "."
        \o (IF f < 10 THEN "0" ELSE "") \o ToString(f)

\* printf("%.1f") of a value held in tenths.
Fmt1(v) ==
    LET a == Abs(v)
    IN  (IF v < 0 THEN "-" ELSE "") \o ToString(a \div 10) \o "."
        \o ToString(a % 10)

\* The projection rounding the timestamp to the nearest second.
CsvLine_rounds_time(sample) ==
    << ToString((sample.time + 500) \div 1000),
       IF sample.depth >= 0 THEN Fmt2(sample.depth) ELSE "",
       IF sample.temperature > -9990 THEN Fmt1(sample.temperature) ELSE "",
       IF sample.ppo2 >= 0 THEN Fmt2(sample.ppo2) ELSE "",
       IF sample.cns >= 0 THEN Fmt2(sample.cns) ELSE "",
       IF sample.setpoint >= 0 THEN Fmt2(sample.setpoint) ELSE "",
       IF sample.deco_type = DC_DECO_DECOSTOP THEN "DECOSTOP"
       ELSE IF sample.deco_type = DC_DECO_SAFETYSTOP THEN "SAFETYSTOP"
       ELSE "NDL",
       ToString(sample.deco_time),
       Fmt2(sample.deco_depth) >>

\* The projection with the two stop tokens exchanged.
CsvLine_swapped_tokens(sample) ==
    << ToString(sample.time \div 1000),
       IF sample.depth >= 0 THEN Fmt2(sample.depth) ELSE "",
       IF sample.temperature > -9990 THEN Fmt1(sample.temperature) ELSE "",
       IF sample.ppo2 >= 0 THEN Fmt2(sample.ppo2) ELSE "",
       IF sample.cns >= 0 THEN Fmt2(sample.cns) ELSE "",
       IF sample.setpoint >= 0 THEN Fmt2(sample.setpoint) ELSE "",
       IF sample.deco_type = DC_DECO_DECOSTOP THEN "SAFETYSTOP"
       ELSE IF sample.deco_type = DC_DECO_SAFETYSTOP THEN "DECOSTOP"
       ELSE "NDL",
       ToString(sample.deco_time),
       Fmt2(sample.deco_depth) >>

\* The nine fields of the line write_sample_to_csv prints for a sample.
CsvLine(sample) ==
    << ToString(sample.time \div 1000),
       IF sample.depth >= 0 THEN Fmt2(sample.depth) ELSE "",
       IF sample.temperature > -9990 THEN Fmt1(sample.temperature) ELSE "",
       IF sample.ppo2 >= 0 THEN Fmt2(sample.ppo2) ELSE "",
       IF sample.cns >= 0 THEN Fmt2(sample.cns) ELSE "",
       IF sample.setpoint >= 0 THEN Fmt2(sample.setpoint) ELSE "",
       IF sample.deco_type = DC_DECO_DECOSTOP THEN "DECOSTOP"
       ELSE IF sample.deco_type = DC_DECO_SAFETYSTOP THEN "SAFETYSTOP"
       ELSE "NDL",
       ToString(sample.deco_time),
       Fmt2(sample.deco_depth) >>

\* write_sample_to_csv without its dirty test.
write_sample_to_csv_always(outfile, sample) ==
    [lines |-> Append(outfile.lines, CsvLine(sample)),
     rows |-> Append(outfile.rows, sample)]

\* write_sample_to_csv writing at the start of the file instead of its end.
write_sample_to_csv_at_start(outfile, sample) ==
    IF sample.dirty = 0 THEN outfile
    ELSE [lines |-> <<CsvLine(sample)>> \o outfile.lines,
          rows |-> <<sample>> \o outfile.rows]

\* The output file: lines is the text written so far, rows the samples that
\* were handed to the projection, in order.
write_sample_to_csv(outfile, sample) ==
    IF sample.dirty = 0 THEN outfile
    ELSE [lines |-> Append(outfile.lines, CsvLine(sample)),
          rows |-> Append(outfile.rows, sample)]

\* ---- sample events ------------------------------------------------------

\* dc_sample_value_t is a union; the members the callback does not read for
\* a given type are held at zero.
NoValue ==
    [time |-> 0, depth |-> 0, temperature |-> 0, ppo2 |-> 0, cns |-> 0,
     setpoint |-> 0, deco |-> [type |-> DC_DECO_NDL, time |-> 0, depth |-> 0]]

TimeVals == {0, 1000, 1999}
DepthVals == {1000, 2000}
TemperatureVals == {280}
Ppo2Vals == {121}
CnsVals == {5}
SetpointVals == {130}
DecoVals ==
    { [type |-> DC_DECO_DECOSTOP, time |-> 120, depth |-> 900],
      [type |-> DC_DECO_SAFETYSTOP, time |-> 180, depth |-> 500] }

Events ==
    {[type |-> DC_SAMPLE_TIME, value |-> [NoValue EXCEPT !.time = t]] :
        t \in TimeVals}
    \cup {[type |-> DC_SAMPLE_DEPTH, value |-> [NoValue EXCEPT !.depth = d]] :
        d \in DepthVals}
    \cup {[type |-> DC_SAMPLE_TEMPERATURE,
           value |-> [NoValue EXCEPT !.temperature = d]] :
        d \in TemperatureVals}
    \cup {[type |-> DC_SAMPLE_PPO2, value |-> [NoValue EXCEPT !.ppo2 = d]] :
        d \in Ppo2Vals}
    \cup {[type |-> DC_SAMPLE_CNS, value |-> [NoValue EXCEPT !.cns = d]] :
        d \in CnsVals}
    \cup {[type |-> DC_SAMPLE_SETPOINT,
           value |-> [NoValue EXCEPT !.setpoint = d]] :
        d \in SetpointVals}
    \cup {[type |-> DC_SAMPLE_DECO, value |-> [NoValue EXCEPT !.deco = d]] :
        d \in DecoVals}
    \cup {[type |-> DC_SAMPLE_HEARTBEAT, value |-> NoValue]}

\* Payloads at the edges of what the decoder can supply: timestamps around a
\* second boundary and near the largest integer the checker holds, negative
\* readings, a temperature at and below the value reset_sample_data stores,
\* and a deco type the projection has no token for.
WideTimeVals == {0, 999, 1000, 1999, 2000, 2147481999}
WideDepthVals == {-50, 0, 1000}
WideTemperatureVals == {-10000, -9990, -50, 280}
WidePpo2Vals == {-1, 121}
WideCnsVals == {-100, 5}
WideSetpointVals == {-100, 130}
WideDecoVals ==
    { [type |-> DC_DECO_NDL, time |-> 0, depth |-> 0],
      [type |-> DC_DECO_DECOSTOP, time |-> 120, depth |-> 900],
      [type |-> DC_DECO_SAFETYSTOP, time |-> 180, depth |-> 500],
      [type |-> DC_DECO_DEEPSTOP, time |-> 60, depth |-> 1500] }

WideEvents ==
    {[type |-> DC_SAMPLE_TIME, value |-> [NoValue EXCEPT !.time = t]] :
        t \in WideTimeVals}
    \cup {[type |-> DC_SAMPLE_DEPTH, value |-> [NoValue EXCEPT !.depth = d]] :
        d \in WideDepthVals}
    \cup {[type |-> DC_SAMPLE_TEMPERATURE,
           value |-> [NoValue EXCEPT !.temperature = d]] :
        d \in WideTemperatureVals}
    \cup {[type |-> DC_SAMPLE_PPO2, value |-> [NoValue EXCEPT !.ppo2 = d]] :
        d \in WidePpo2Vals}
    \cup {[type |-> DC_SAMPLE_CNS, value |-> [NoValue EXCEPT !.cns = d]] :
        d \in WideCnsVals}
    \cup {[type |-> DC_SAMPLE_SETPOINT,
           value |-> [NoValue EXCEPT !.setpoint = d]] :
        d \in WideSetpointVals}
    \cup {[type |-> DC_SAMPLE_DECO, value |-> [NoValue EXCEPT !.deco = d]] :
        d \in WideDecoVals}
    \cup {[type |-> DC_SAMPLE_HEARTBEAT, value |-> NoValue]}

\* ---- the row accumulator ------------------------------------------------

\* The field branches with a last branch that takes any other type for a
\* depth.
field_event_default_depth(type, value, data) ==
    IF type = DC_SAMPLE_DEPTH THEN
        [data EXCEPT !.current_sample.depth = value.depth]
    ELSE IF type = DC_SAMPLE_TEMPERATURE THEN
        [data EXCEPT !.current_sample.temperature = value.temperature]
    ELSE IF type = DC_SAMPLE_PPO2 THEN
        [data EXCEPT !.current_sample.ppo2 = value.ppo2]
    ELSE IF type = DC_SAMPLE_CNS THEN
        [data EXCEPT !.current_sample.cns = value.cns]
    ELSE IF type = DC_SAMPLE_SETPOINT THEN
        [data EXCEPT !.current_sample.setpoint = value.setpoint]
    ELSE IF type = DC_SAMPLE_DECO THEN
        [data EXCEPT !.current_sample.deco_type = value.deco.type,
                     !.current_sample.deco_time = value.deco.time,
                     !.current_sample.deco_depth = value.deco.depth]
    ELSE [data EXCEPT !.current_sample.depth = value.depth]

\* The field branches with the PPO2 branch storing into setpoint.
field_event_ppo2_into_setpoint(type, value, data) ==
    IF type = DC_SAMPLE_DEPTH THEN
        [data EXCEPT !.current_sample.depth = value.depth]
    ELSE IF type = DC_SAMPLE_TEMPERATURE THEN
        [data EXCEPT !.current_sample.temperature = value.temperature]
    ELSE IF type = DC_SAMPLE_PPO2 THEN
        [data EXCEPT !.current_sample.setpoint = value.ppo2]
    ELSE IF type = DC_SAMPLE_CNS THEN
        [data EXCEPT !.current_sample.cns = value.cns]
    ELSE IF type = DC_SAMPLE_SETPOINT THEN
        [data EXCEPT !.current_sample.setpoint = value.setpoint]
    ELSE IF type = DC_SAMPLE_DECO THEN
        [data EXCEPT !.current_sample.deco_type = value.deco.type,
                     !.current_sample.deco_time = value.deco.time,
                     !.current_sample.deco_depth = value.deco.depth]
    ELSE data

\* The branches of sample_callback for the types other than DC_SAMPLE_TIME.
field_event(type, value, data) ==
    IF type = DC_SAMPLE_DEPTH THEN
        [data EXCEPT !.current_sample.depth = value.depth]
    ELSE IF type = DC_SAMPLE_TEMPERATURE THEN
        [data EXCEPT !.current_sample.temperature = value.temperature]
    ELSE IF type = DC_SAMPLE_PPO2 THEN
        [data EXCEPT !.current_sample.ppo2 = value.ppo2]
    ELSE IF type = DC_SAMPLE_CNS THEN
        [data EXCEPT !.current_sample.cns = value.cns]
    ELSE IF type = DC_SAMPLE_SETPOINT THEN
        [data EXCEPT !.current_sample.setpoint = value.setpoint]
    ELSE IF type = DC_SAMPLE_DECO THEN
        [data EXCEPT !.current_sample.deco_type = value.deco.type,
                     !.current_sample.deco_time = value.deco.time,
                     !.current_sample.deco_depth = value.deco.depth]
    ELSE data

\* sample_callback whose Time branch forgets to flush the row in progress.
sample_callback_no_flush(type, value, data) ==
    IF type = DC_SAMPLE_TIME THEN
        [outfile |-> data.outfile,
         current_sample |->
             [reset_sample_data EXCEPT !.time = value.time, !.dirty = 1]]
    ELSE field_event(type, value, data)

\* sample_callback whose Time branch flushes after starting the new row.
sample_callback_flush_last(type, value, data) ==
    IF type = DC_SAMPLE_TIME THEN
        LET fresh == [reset_sample_data EXCEPT !.time = value.time,
                                               !.dirty = 1]
        IN  [outfile |-> write_sample_to_csv(data.outfile, fresh),
             current_sample |-> fresh]
    ELSE field_event(type, value, data)

\* sample_callback whose Time branch does not reset the fields.
sample_callback_no_reset(type, value, data) ==
    IF type = DC_SAMPLE_TIME THEN
        [outfile |-> write_sample_to_csv(data.outfile, data.current_sample),
         current_sample |->
             [data.current_sample EXCEPT !.time = value.time, !.dirty = 1]]
    ELSE field_event(type, value, data)

\* sample_callback that keeps the first depth and the first deco depth of a
\* row instead of the last.
sample_callback_first_wins(type, value, data) ==
    IF type = DC_SAMPLE_TIME THEN
        [outfile |-> write_sample_to_csv(data.outfile, data.current_sample),
         current_sample |->
             [reset_sample_data EXCEPT !.time = value.time, !.dirty = 1]]
    ELSE IF type = DC_SAMPLE_DEPTH /\ data.current_sample.depth >= 0 THEN
        data
    ELSE IF type = DC_SAMPLE_DECO
            /\ data.current_sample.deco_type # DC_DECO_NDL THEN
        [data EXCEPT !.current_sample.deco_type = value.deco.type,
                     !.current_sample.deco_time = value.deco.time]
    ELSE field_event(type, value, data)

\* sample_callback whose Time branch does not store the new timestamp.
sample_callback_stale_time(type, value, data) ==
    IF type = DC_SAMPLE_TIME THEN
        [outfile |-> write_sample_to_csv(data.outfile, data.current_sample),
         current_sample |->
             [reset_sample_data EXCEPT !.time = data.current_sample.time,
                                       !.dirty = 1]]
    ELSE field_event(type, value, data)

\* sample_callback whose Time branch does not set dirty.
sample_callback_no_dirty(type, value, data) ==
    IF type = DC_SAMPLE_TIME THEN
        [outfile |-> write_sample_to_csv(data.outfile, data.current_sample),
         current_sample |-> [reset_sample_data EXCEPT !.time = value.time]]
    ELSE field_event(type, value, data)

\* sample_callback that also flushes the row in progress on a Depth event.
sample_callback_flush_on_depth(type, value, data) ==
    IF type = DC_SAMPLE_TIME THEN
        [outfile |-> write_sample_to_csv(data.outfile, data.current_sample),
         current_sample |->
             [reset_sample_data EXCEPT !.time = value.time, !.dirty = 1]]
    ELSE IF type = DC_SAMPLE_DEPTH THEN
        [outfile |-> write_sample_to_csv(data.outfile, data.current_sample),
         current_sample |-> [data.current_sample EXCEPT !.depth = value.depth]]
    ELSE field_event(type, value, data)

\* sample_callback whose field branches mark the row dirty.
sample_callback_dirty_on_field(type, value, data) ==
    IF type = DC_SAMPLE_TIME THEN
        [outfile |-> write_sample_to_csv(data.outfile, data.current_sample),
         current_sample |->
             [reset_sample_data EXCEPT !.time = value.time, !.dirty = 1]]
    ELSE [field_event(type, value, data) EXCEPT !.current_sample.dirty = 1]

\* data is callback_userdata_t: the output file and the in-progress sample.
sample_callback(type, value, data) ==
    LET sample == data.current_sample
    IN  IF type = DC_SAMPLE_TIME THEN
            [outfile |-> write_sample_to_csv(data.outfile, sample),
             current_sample |->
                 [reset_sample_data EXCEPT !.time = value.time, !.dirty = 1]]
        ELSE field_event(type, value, data)

\* main forgetting the final flush.
finish_skipped(outfile, sample) == outfile

\* What main does with the in-progress sample once the sample iteration has
\* returned, whatever its status.
finish(outfile, sample) == write_sample_to_csv(outfile, sample)

\* ---- the output file name ------------------------------------------------

\* sizeof(output_filename)
OutputFilenameSize == 256

DotCsv == <<".", "c", "s", "v">>

\* main, lines 136-144: strncpy of at most sizeof - 5 characters, then the
\* text from the last '.' of the whole copied path on is replaced by ".csv",
\* or ".csv" is appended when the path holds no '.'.
derive_output_filename(input) ==
    LET n == OutputFilenameSize - 5
        buf == IF Len(input) > n THEN SubSeq(input, 1, n) ELSE input
        dots == {i \in 1..Len(buf) : buf[i] = "."}
    IN  IF dots # {}
        THEN LET dot == CHOOSE i \in dots : \A j \in dots : j <= i
             IN  SubSeq(buf, 1, dot - 1) \o DotCsv
        ELSE buf \o DotCsv

\* The characters an input path is made of.
PathChars == {"a", ".", "/"}

ShortPaths(n) == UNION {[1..m -> PathChars] : m \in 1..n}

\* The paths dsf2csv is run on: every short path, and paths that do not fit
\* the buffer, made of a short path followed by a long name.
InputPaths ==
    ShortPaths(MaxPathLen)
    \cup {p \o [i \in 1..OutputFilenameSize |-> "a"] : p \in ShortPaths(2)}

\* ---- the standalone converter divesoft2csv ------------------------------

\* divesoft2csv before it runs: nothing written, no sample read.
DsStart ==
    [pc |-> "start", out |-> <<>>, samples |-> <<>>, err |-> <<>>,
     msg |-> <<>>, exit_code |-> -1]

DC_SAMPLE_PO2 == "DC_SAMPLE_PO2"
DC_STATUS_DONE == "DC_STATUS_DONE"

\* The header line divesoft2csv prints (the degree sign of the temperature
\* unit is left out).
DsHeader ==
    [field |-> "header",
     text |-> "Time (s),Depth (m),Temperature (C),pO2 (bar)", end |-> "\n"]

\* The samples dc_parser_get_sample can return; the members the switch does
\* not print for a type are held at zero.
DsSamples ==
    {[type |-> DC_SAMPLE_TIME, time |-> t, depth |-> 0, temperature |-> 0,
      po2 |-> 0] : t \in {10, 20}}
    \cup {[type |-> DC_SAMPLE_DEPTH, time |-> 0, depth |-> 1250,
           temperature |-> 0, po2 |-> 0]}
    \cup {[type |-> DC_SAMPLE_TEMPERATURE, time |-> 0, depth |-> 0,
           temperature |-> 2150, po2 |-> 0]}
    \cup {[type |-> DC_SAMPLE_PO2, time |-> 0, depth |-> 0, temperature |-> 0,
           po2 |-> p] : p \in {121, 140}}
    \cup {[type |-> DC_SAMPLE_HEARTBEAT, time |-> 0, depth |-> 0,
           temperature |-> 0, po2 |-> 0]}

\* The switch with a line ended after the temperature as well.
ds_write_newline_after_temperature(sample) ==
    IF sample.type = DC_SAMPLE_TIME THEN
        <<[field |-> "time", text |-> ToString(sample.time), end |-> ","]>>
    ELSE IF sample.type = DC_SAMPLE_DEPTH THEN
        <<[field |-> "depth", text |-> Fmt2(sample.depth), end |-> ","]>>
    ELSE IF sample.type = DC_SAMPLE_TEMPERATURE THEN
        <<[field |-> "temperature", text |-> Fmt2(sample.temperature),
           end |-> "\n"]>>
    ELSE IF sample.type = DC_SAMPLE_PO2 THEN
        <<[field |-> "po2", text |-> Fmt2(sample.po2), end |-> "\n"]>>
    ELSE <<>>

\* The switch of the sample loop: what one sample makes fprintf write, as
\* the member printed, its text and the character that ends it.
ds_write(sample) ==
    IF sample.type = DC_SAMPLE_TIME THEN
        <<[field |-> "time", text |-> ToString(sample.time), end |-> ","]>>
    ELSE IF sample.type = DC_SAMPLE_DEPTH THEN
        <<[field |-> "depth", text |-> Fmt2(sample.depth), end |-> ","]>>
    ELSE IF sample.type = DC_SAMPLE_TEMPERATURE THEN
        <<[field |-> "temperature", text |-> Fmt2(sample.temperature),
           end |-> ","]>>
    ELSE IF sample.type = DC_SAMPLE_PO2 THEN
        <<[field |-> "po2", text |-> Fmt2(sample.po2), end |-> "\n"]>>
    ELSE <<>>

\* ---- the driver (main) --------------------------------------------------

VARIABLES
    pc,             \* where main is: "start", "foreach", "done"
    userdata,       \* callback_userdata_t: outfile and current_sample
    events,         \* the sample events the decoder has delivered so far
    status,         \* what dc_parser_samples_foreach returned
    finished,       \* how many times main has flushed the final sample
    out,            \* stdout, one entry per message
    err,            \* stderr, one entry per message
    exit_code,      \* main's return value, -1 while it runs
    input_filename, \* argv[1], one character per element
    output_filename,\* the name main opens for writing, <<>> before that
    ds              \* the run of the standalone converter divesoft2csv

vars ==
    <<pc, userdata, events, status, finished, out, err, exit_code,
      input_filename, output_filename, ds>>

NoFile == [lines |-> <<>>, rows |-> <<>>]

\* Both programs before they run, dsf2csv being given the path argv1.
InitWith(argv1) ==
    /\ pc = "start"
    /\ userdata = [outfile |-> NoFile, current_sample |-> reset_sample_data]
    /\ events = <<>>
    /\ status = DC_STATUS_SUCCESS
    /\ finished = 0
    /\ out = <<>>
    /\ err = <<>>
    /\ exit_code = -1
    /\ input_filename = argv1
    /\ output_filename = <<>>
    /\ ds = DsStart

\* dsf2csv is given the path "a.a".
Init == InitWith(<<"a", ".", "a">>)

\* main returns before the output file exists: bad arguments, no context,
\* unreadable input, no descriptor, no parser, or fopen of the output fails.
SetupFault ==
    /\ pc = "start"
    /\ pc' = "done"
    /\ err' = Append(err, "Error")
    /\ exit_code' = 1
    /\ UNCHANGED <<userdata, events, status, finished, out>>
    /\ UNCHANGED <<input_filename, output_filename, ds>>

\* main up to the call of dc_parser_samples_foreach: the output file is
\* opened, the header is written and current_sample is reset.
Setup ==
    /\ pc = "start"
    /\ pc' = "foreach"
    /\ userdata' = [outfile |-> [lines |-> <<Header>>, rows |-> <<>>],
                    current_sample |-> reset_sample_data]
    /\ out' = out \o <<"Successfully created parser", "CSV file created",
                       "Writing sample data...">>
    /\ output_filename' = derive_output_filename(input_filename)
    /\ UNCHANGED <<events, status, finished, err, exit_code>>
    /\ UNCHANGED <<input_filename, ds>>

\* The decoder invokes the callback with one more sample event.
Callback ==
    /\ pc = "foreach"
    /\ Len(events) < MaxEvents
    /\ \E e \in Events :
          /\ userdata' = sample_callback(e.type, e.value, userdata)
          /\ events' = Append(events, e)
    /\ UNCHANGED <<pc, status, finished, out, err, exit_code>>
    /\ UNCHANGED <<input_filename, output_filename, ds>>

\* main flushing the final sample only when the iteration succeeded.
MainTail_flush_on_success(s) ==
    /\ pc = "foreach"
    /\ pc' = "done"
    /\ status' = s
    /\ err' = IF s # DC_STATUS_SUCCESS
              THEN Append(err, "Error during sample processing")
              ELSE err
    /\ userdata' = IF s = DC_STATUS_SUCCESS
                   THEN [userdata EXCEPT
                           !.outfile = finish(userdata.outfile,
                                              userdata.current_sample)]
                   ELSE userdata
    /\ finished' = IF s = DC_STATUS_SUCCESS THEN finished + 1 ELSE finished
    /\ out' = Append(out, "Sample data written successfully.")
    /\ exit_code' = 0
    /\ UNCHANGED events
    /\ UNCHANGED <<input_filename, output_filename, ds>>

\* dc_parser_samples_foreach returns s and main runs to its end.
MainTail(s) ==
    /\ pc = "foreach"
    /\ pc' = "done"
    /\ status' = s
    /\ err' = IF s # DC_STATUS_SUCCESS
              THEN Append(err, "Error during sample processing")
              ELSE err
    /\ userdata' = [userdata EXCEPT
                      !.outfile = finish(userdata.outfile,
                                         userdata.current_sample)]
    /\ finished' = finished + 1
    /\ out' = Append(out, "Sample data written successfully.")
    /\ exit_code' = 0
    /\ UNCHANGED events
    /\ UNCHANGED <<input_filename, output_filename, ds>>

ForeachSuccess == MainTail(DC_STATUS_SUCCESS)

ForeachFault == MainTail(DC_STATUS_DATAFORMAT)

Next == SetupFault \/ Setup \/ Callback \/ ForeachSuccess \/ ForeachFault

Spec == Init /\ [][Next]_vars

\* The decoder invokes the callback with one more sample event, drawn from
\* the wide payloads.
CallbackWide ==
    /\ pc = "foreach"
    /\ Len(events) < MaxWideEvents
    /\ \E e \in WideEvents :
          /\ userdata' = sample_callback(e.type, e.value, userdata)
          /\ events' = Append(events, e)
    /\ UNCHANGED <<pc, status, finished, out, err, exit_code>>
    /\ UNCHANGED <<input_filename, output_filename, ds>>

NextWide ==
    SetupFault \/ Setup \/ CallbackWide \/ ForeachSuccess \/ ForeachFault

\* The same program over short event sequences with wide payloads.
SpecWide == Init /\ [][NextWide]_vars

\* dsf2csv run on any of the input paths, the decoder delivering no event.
InitFile == \E p \in InputPaths : InitWith(p)

NextFile == SetupFault \/ Setup \/ ForeachSuccess \/ ForeachFault

SpecFile == InitFile /\ [][NextFile]_vars

\* ---- the driver of divesoft2csv ------------------------------------------

mainvars ==
    <<pc, userdata, events, status, finished, out, err, exit_code,
      input_filename, output_filename>>

\* divesoft2csv returns before it has written anything: too few arguments,
\* or one of the two files cannot be opened.
DsOpenFault ==
    /\ ds.pc = "start"
    /\ ds' = [ds EXCEPT !.pc = "done", !.err = Append(@, "Error"),
                        !.exit_code = 1]
    /\ UNCHANGED mainvars

\* divesoft2csv writes the header and then fails to make the context or the
\* parser, or to hand the data to the parser.
DsParserFault ==
    /\ ds.pc = "start"
    /\ ds' = [ds EXCEPT !.pc = "done", !.out = <<DsHeader>>,
                        !.err = Append(@, "Error"), !.exit_code = 1]
    /\ UNCHANGED mainvars

\* divesoft2csv up to its sample loop: the header is written.
DsSetup ==
    /\ ds.pc = "start"
    /\ ds' = [ds EXCEPT !.pc = "loop", !.out = <<DsHeader>>]
    /\ UNCHANGED mainvars

\* One turn of the sample loop: dc_parser_get_sample returns a sample and
\* the switch writes it.
DsSample ==
    /\ ds.pc = "loop"
    /\ Len(ds.samples) < MaxDsSamples
    /\ \E sample \in DsSamples :
          ds' = [ds EXCEPT !.out = @ \o ds_write(sample),
                           !.samples = Append(@, sample)]
    /\ UNCHANGED mainvars

\* dc_parser_get_sample returns rc, which is not success: the loop ends and
\* divesoft2csv runs to its end.
DsLoopEnd(rc) ==
    /\ ds.pc = "loop"
    /\ ds' = [ds EXCEPT
                !.pc = "done",
                !.err = IF rc # DC_STATUS_DONE
                        THEN Append(@, "Fout tijdens uitlezen samples")
                        ELSE @,
                !.msg = Append(@, "CSV export klaar"),
                !.exit_code = 0]
    /\ UNCHANGED mainvars

DsDone == DsLoopEnd(DC_STATUS_DONE)

DsError == DsLoopEnd(DC_STATUS_DATAFORMAT)

NextDs ==
    DsOpenFault \/ DsParserFault \/ DsSetup \/ DsSample \/ DsDone \/ DsError

SpecDs == Init /\ [][NextDs]_vars

\* ---- reading the event history ------------------------------------------

current_sample == userdata.current_sample
lines == userdata.outfile.lines
rows == userdata.outfile.rows

IsTime(e) == e.type = DC_SAMPLE_TIME

\* The positions of the Time events among the first n events.
TimesUpTo(evs, n) == {i \in 1..n : IsTime(evs[i])}

NTimes(evs) == Cardinality(TimesUpTo(evs, Len(evs)))

\* The position of the k-th Time event.
TimePos(evs, k) ==
    CHOOSE i \in 1..Len(evs) :
        IsTime(evs[i]) /\ Cardinality(TimesUpTo(evs, i)) = k

\* The last event that belongs to the row of the k-th Time event.
SegEnd(evs, k) ==
    IF k < NTimes(evs) THEN TimePos(evs, k + 1) - 1 ELSE Len(evs)

\* The positions of the events of type K that arrived for the k-th row.
KindIdx(evs, k, K) ==
    {i \in (TimePos(evs, k) + 1)..SegEnd(evs, k) : evs[i].type = K}

Max(S) == CHOOSE m \in S : \A n \in S : n <= m

FieldKinds ==
    {DC_SAMPLE_DEPTH, DC_SAMPLE_TEMPERATURE, DC_SAMPLE_PPO2, DC_SAMPLE_CNS,
     DC_SAMPLE_SETPOINT, DC_SAMPLE_DECO}

\* The field(s) of a row that events of type K write.
FieldOf(row, K) ==
    CASE K = DC_SAMPLE_DEPTH -> <<row.depth>>
      [] K = DC_SAMPLE_TEMPERATURE -> <<row.temperature>>
      [] K = DC_SAMPLE_PPO2 -> <<row.ppo2>>
      [] K = DC_SAMPLE_CNS -> <<row.cns>>
      [] K = DC_SAMPLE_SETPOINT -> <<row.setpoint>>
      [] K = DC_SAMPLE_DECO -> <<row.deco_type, row.deco_time, row.deco_depth>>

\* The payload of an event of type K.
PayloadOf(e, K) ==
    CASE K = DC_SAMPLE_DEPTH -> <<e.value.depth>>
      [] K = DC_SAMPLE_TEMPERATURE -> <<e.value.temperature>>
      [] K = DC_SAMPLE_PPO2 -> <<e.value.ppo2>>
      [] K = DC_SAMPLE_CNS -> <<e.value.cns>>
      [] K = DC_SAMPLE_SETPOINT -> <<e.value.setpoint>>
      [] K = DC_SAMPLE_DECO ->
            <<e.value.deco.type, e.value.deco.time, e.value.deco.depth>>

\* The columns of a printed line that show the field(s) of type K.
ColumnsOf(line, K) ==
    CASE K = DC_SAMPLE_DEPTH -> <<line[2]>>
      [] K = DC_SAMPLE_TEMPERATURE -> <<line[3]>>
      [] K = DC_SAMPLE_PPO2 -> <<line[4]>>
      [] K = DC_SAMPLE_CNS -> <<line[5]>>
      [] K = DC_SAMPLE_SETPOINT -> <<line[6]>>
      [] K = DC_SAMPLE_DECO -> <<line[7], line[8], line[9]>>

\* What the columns of type K show when the field is absent / at its default.
AbsentColumns(K) ==
    IF K = DC_SAMPLE_DECO THEN <<"NDL", "0", "0.00">> ELSE <<"">>

\* A row that holds nothing but a timestamp: every optional field absent,
\* deco status NDL, deco time 0, deco depth 0.
IsFreshRow(row, t) ==
    /\ row.time = t
    /\ row.dirty = 1
    /\ row.deco_type = DC_DECO_NDL
    /\ row.deco_time = 0
    /\ row.deco_depth = 0
    /\ \A K \in FieldKinds : ColumnsOf(CsvLine(row), K) = AbsentColumns(K)

\* The step delivers one event to the callback.
Delivered == Len(events') = Len(events) + 1

LastEvent == events'[Len(events')]

IsPrefix(s, t) == Len(s) <= Len(t) /\ \A i \in 1..Len(s) : s[i] = t[i]

Finished == pc = "done" /\ finished = 1

\* ---- C1 -----------------------------------------------------------------

\* C1: after any event sequence followed by one finish(), the number of
\* emitted rows equals the number of Time events, and the i-th emitted row
\* carries the payload of the i-th Time event as its timestamp.
C1_OneRowPerTimeEventInOrder ==
    Finished =>
        /\ Len(rows) = NTimes(events)
        /\ Len(lines) = 1 + NTimes(events)
        /\ \A k \in 1..Len(rows) :
              rows[k].time = events[TimePos(events, k)].value.time

C1_Witness ==
    /\ Finished
    /\ NTimes(events) = 3
    /\ Len(events) = 4
    /\ rows[1].time = 1999 /\ rows[2].time = 0 /\ rows[3].time = 1000

\* ---- C2 -----------------------------------------------------------------

\* C2: on a Time event, a dirty in-progress row is appended to the output
\* exactly as it was before the event and a row that is not dirty appends
\* nothing; afterwards the in-progress row holds the event's timestamp, is
\* dirty and has every other field at its default.
C2_TimeEventFlushesThenResets ==
    [][ (Delivered /\ IsTime(LastEvent)) =>
            /\ current_sample.dirty = 1 =>
                  /\ rows' = Append(rows, current_sample)
                  /\ lines' = Append(lines, CsvLine(current_sample))
            /\ current_sample.dirty = 0 =>
                  /\ rows' = rows
                  /\ lines' = lines
            /\ IsFreshRow(current_sample', LastEvent.value.time)
      ]_vars

\* The example of the spec: [Time=0, Deco={DecoStop,120,9.0}, Time=1000] has
\* emitted the DECOSTOP row and begun a fresh row for 1000.
C2_Witness ==
    /\ pc = "foreach"
    /\ Len(events) = 3
    /\ events[1].value.time = 0 /\ IsTime(events[1])
    /\ events[2].type = DC_SAMPLE_DECO
    /\ IsTime(events[3]) /\ events[3].value.time = 1000
    /\ Len(lines) = 2
    /\ lines[2] = <<"0", "", "", "", "", "", "DECOSTOP", "120", "9.00">>
    /\ IsFreshRow(current_sample, 1000)

\* ---- C3 -----------------------------------------------------------------

\* C3: no carry-forward: in every emitted row, a field for which no event of
\* its kind arrived between the row's Time event and its flush is absent or
\* at its default, whatever earlier rows held.
C3_NoCarryForward ==
    \A k \in 1..Len(rows) :
        \A K \in FieldKinds :
            KindIdx(events, k, K) = {} =>
                /\ FieldOf(rows[k], K) = FieldOf(reset_sample_data, K)
                /\ ColumnsOf(lines[k + 1], K) = AbsentColumns(K)

\* [Time=0, Depth=10, Time=1000, Temp=28] of the spec, finished.
C3_Witness ==
    /\ Finished
    /\ Len(lines) = 3
    /\ lines[2] = <<"0", "10.00", "", "", "", "", "NDL", "0", "0.00">>
    /\ lines[3] = <<"1", "", "28.0", "", "", "", "NDL", "0", "0.00">>

\* ---- C4 -----------------------------------------------------------------

\* C4: last-write-wins: in every emitted row, a field for which one or more
\* events of its kind arrived between the row's Time event and its flush
\* holds the payload of the last such event (for DecoStatus all of status,
\* duration and depth come from that one event).
C4_LastWriteWins ==
    \A k \in 1..Len(rows) :
        \A K \in FieldKinds :
            KindIdx(events, k, K) # {} =>
                FieldOf(rows[k], K) =
                    PayloadOf(events[Max(KindIdx(events, k, K))], K)

C4_Witness ==
    /\ Len(rows) = 1
    /\ \E K \in {DC_SAMPLE_DEPTH, DC_SAMPLE_DECO} :
          /\ Cardinality(KindIdx(events, 1, K)) = 2
          /\ \E i, j \in KindIdx(events, 1, K) :
                /\ i < j
                /\ events[i].value # events[j].value
                /\ FieldOf(rows[1], K) = PayloadOf(events[j], K)

\* ---- C5 -----------------------------------------------------------------

\* C5: the last row is never lost: when the events hold at least one Time
\* event, after finish() the last emitted row has the timestamp of the last
\* Time event and holds the field events that followed it; a stream that
\* ends right after a Time event yields a row for that Time event.
C5_LastRowNeverLost ==
    (Finished /\ NTimes(events) >= 1) =>
        LET n == NTimes(events)
            last == TimePos(events, n)
        IN  /\ Len(rows) >= 1
            /\ rows[Len(rows)].time = events[last].value.time
            /\ \A K \in FieldKinds :
                  LET S == {i \in (last + 1)..Len(events) : events[i].type = K}
                  IN  S # {} =>
                        FieldOf(rows[Len(rows)], K) =
                            PayloadOf(events[Max(S)], K)
            /\ last = Len(events) =>
                  /\ IsFreshRow(rows[Len(rows)], events[last].value.time)
                  /\ lines[Len(lines)] = CsvLine(rows[Len(rows)])

\* [Time=1999, Depth=20], the spec's last-row case.
C5_Witness ==
    /\ Finished
    /\ Len(events) = 2
    /\ IsTime(events[1]) /\ events[1].value.time = 1999
    /\ events[2].type = DC_SAMPLE_DEPTH
    /\ lines = <<Header, <<"1", "20.00", "", "", "", "", "NDL", "0", "0.00">> >>

\* ---- C6 -----------------------------------------------------------------

\* C6: a row that is not dirty is never projected: after an event sequence
\* with no Time event (an empty one and a decoder that faults before its
\* first event included) and finish(), no row is emitted and the output is
\* the header line only.
C6_NoTimeEventNoRow ==
    /\ \A k \in 1..Len(rows) : rows[k].dirty = 1
    /\ (Finished /\ NTimes(events) = 0) => (rows = <<>> /\ lines = <<Header>>)

C6_Witness ==
    /\ Finished
    /\ NTimes(events) = 0
    /\ Len(events) = 2
    /\ current_sample.depth = 2000
    /\ current_sample.dirty = 0
    /\ status = DC_STATUS_DATAFORMAT
    /\ lines = <<Header>>

\* ---- C7 -----------------------------------------------------------------

TimePayloads(evs) ==
    [k \in 1..NTimes(evs) |-> evs[TimePos(evs, k)].value.time]

NonDecreasing(ts) == \A i \in 1..Len(ts) : \A j \in i..Len(ts) : ts[i] <= ts[j]

StrictlyIncreasing(ts) ==
    \A i \in 1..Len(ts) : \A j \in (i + 1)..Len(ts) : ts[i] < ts[j]

DistinctTimestamps ==
    \A i \in 1..Len(rows) : \A j \in (i + 1)..Len(rows) :
        rows[i].time # rows[j].time

\* C7 as stated: when the Time events are non-decreasing (equal consecutive
\* payloads allowed), no two emitted rows carry the same timestamp.
C7_Original_NonDecreasing ==
    NonDecreasing(TimePayloads(events)) => DistinctTimestamps

\* C7 (amended): when the Time events are strictly increasing, the events
\* that follow a Time event are coalesced into its one row and no two
\* emitted rows carry the same timestamp; a repeated Time payload starts a
\* row of its own.
C7_StrictlyIncreasingDistinctRows ==
    /\ StrictlyIncreasing(TimePayloads(events)) => DistinctTimestamps
    /\ Finished => Len(rows) = NTimes(events)

C7_Witness ==
    /\ Finished
    /\ Len(events) = 4
    /\ TimePayloads(events) = <<0, 1000>>
    /\ Len(rows) = 2
    /\ rows[1].time = 0 /\ rows[2].time = 1000
    /\ rows[1].depth = 1000 /\ rows[2].depth = 2000

\* ---- C8 -----------------------------------------------------------------

\* C8: when the decoder aborts with a fault after delivering a prefix of
\* events, finish() still runs exactly once: the output is the header
\* followed by one row for every Time event of the prefix, the row that was
\* in progress at the fault included.
C8_FaultStillFlushes ==
    (pc = "done" /\ status # DC_STATUS_SUCCESS) =>
        /\ finished = 1
        /\ lines[1] = Header
        /\ Len(lines) = 1 + NTimes(events)
        /\ Len(rows) = NTimes(events)
        /\ \A k \in 1..Len(rows) :
              /\ rows[k].time = events[TimePos(events, k)].value.time
              /\ lines[k + 1] = CsvLine(rows[k])
        /\ NTimes(events) >= 1 => rows[Len(rows)] = current_sample

C8_Witness ==
    /\ pc = "done"
    /\ status = DC_STATUS_DATAFORMAT
    /\ Len(events) = 3
    /\ NTimes(events) = 2
    /\ events[3].type = DC_SAMPLE_DEPTH
    /\ Len(lines) = 3
    /\ lines[3][2] = "10.00"

\* ---- C9 -----------------------------------------------------------------

\* C9: a decode fault is surfaced and not hidden as success: when the sample
\* iteration returned a status other than success, the run reports the fault
\* (message and exit status) and does not report that the sample data was
\* written successfully.
C9_FaultNotReportedAsSuccess ==
    (pc = "done" /\ status # DC_STATUS_SUCCESS) =>
        /\ \E i \in 1..Len(err) : err[i] = "Error during sample processing"
        /\ exit_code # 0
        /\ \A i \in 1..Len(out) : out[i] # "Sample data written successfully."

\* ---- C10 ----------------------------------------------------------------

SinkReached == pc = "foreach" \/ finished = 1

\* C10: in a run that reaches the output sink the header is written once and
\* before any row: the content is always the header followed by row lines,
\* and lines are only ever appended.
C10_HeaderOnceThenAppendOnly ==
    /\ [](SinkReached =>
            /\ Len(lines) = 1 + Len(rows)
            /\ lines[1] = Header
            /\ \A i \in 2..Len(lines) :
                  lines[i] # Header /\ lines[i] = CsvLine(rows[i - 1]))
    /\ [](~SinkReached => lines = <<>>)
    /\ [][IsPrefix(lines, lines')]_vars

C10_Witness ==
    /\ pc = "foreach"
    /\ Len(lines) = 3
    /\ lines[1] = Header
    /\ lines[2][1] = "1"
    /\ lines[3][1] = "0"

\* ---- C11 ----------------------------------------------------------------

OptionalKinds ==
    {DC_SAMPLE_DEPTH, DC_SAMPLE_TEMPERATURE, DC_SAMPLE_PPO2, DC_SAMPLE_CNS,
     DC_SAMPLE_SETPOINT}

\* The text that shows the value v of an optional field of type K.
Rendered(K, v) == IF K = DC_SAMPLE_TEMPERATURE THEN Fmt1(v) ELSE Fmt2(v)

\* C11: in every emitted row and for each of depth, temperature, ppo2, cns
\* and setpoint, the CSV field is empty if and only if no event of that kind
\* arrived for the row, and when one did the field renders the value of the
\* last one, whatever the payload (negative ones included).
C11_FieldShownIffEventArrived ==
    \A k \in 1..Len(rows) :
        \A K \in OptionalKinds :
            LET S == KindIdx(events, k, K)
            IN  /\ (ColumnsOf(lines[k + 1], K) = <<"">>) <=> (S = {})
                /\ S # {} =>
                      ColumnsOf(lines[k + 1], K) =
                          <<Rendered(K, PayloadOf(events[Max(S)], K)[1])>>

\* ---- C12 ----------------------------------------------------------------

\* C12: the time column of every emitted row is the row's timestamp in
\* milliseconds divided by 1000 and truncated: it is the r for which
\* 1000*r <= t < 1000*(r+1), so 1999 renders as 1.
C12_TimeColumnTruncates ==
    \A k \in 1..Len(rows) :
        LET t == rows[k].time
            q == t \div 1000
            r == CHOOSE n \in {q - 1, q, q + 1} :
                    1000 * n <= t /\ t - 1000 * n < 1000
        IN  /\ lines[k + 1][1] = ToString(r)
            /\ t = 1999 => lines[k + 1][1] = "1"

C12_Witness ==
    /\ Len(rows) = 2
    /\ rows[1].time = 1999 /\ lines[2][1] = "1"
    /\ rows[2].time = 2147481999 /\ lines[3][1] = "2147481"

\* ---- C13 ----------------------------------------------------------------

DecoTokens == {"NDL", "DECOSTOP", "SAFETYSTOP"}

\* C13 as stated: the deco token of every row is one of NDL, DECOSTOP,
\* SAFETYSTOP, and it is DECOSTOP exactly when the status is DecoStop,
\* SAFETYSTOP exactly when it is SafetyStop and NDL exactly when it is NDL.
C13_Original_NdlOnlyForNdl ==
    \A k \in 1..Len(rows) :
        /\ lines[k + 1][7] \in DecoTokens
        /\ lines[k + 1][7] = "DECOSTOP" <=>
              rows[k].deco_type = DC_DECO_DECOSTOP
        /\ lines[k + 1][7] = "SAFETYSTOP" <=>
              rows[k].deco_type = DC_DECO_SAFETYSTOP
        /\ lines[k + 1][7] = "NDL" <=> rows[k].deco_type = DC_DECO_NDL

\* C13 (amended): the deco token of every row is one of NDL, DECOSTOP,
\* SAFETYSTOP; it is DECOSTOP exactly when the status is DecoStop,
\* SAFETYSTOP exactly when it is SafetyStop, and NDL for every other value,
\* NDL included.
C13_TokenTotalNdlByDefault ==
    \A k \in 1..Len(rows) :
        /\ lines[k + 1][7] \in DecoTokens
        /\ lines[k + 1][7] = "DECOSTOP" <=>
              rows[k].deco_type = DC_DECO_DECOSTOP
        /\ lines[k + 1][7] = "SAFETYSTOP" <=>
              rows[k].deco_type = DC_DECO_SAFETYSTOP
        /\ lines[k + 1][7] = "NDL" <=>
              rows[k].deco_type \notin {DC_DECO_DECOSTOP, DC_DECO_SAFETYSTOP}

C13_Witness ==
    /\ Finished
    /\ Len(rows) = 1
    /\ rows[1].deco_type = DC_DECO_DEEPSTOP
    /\ lines[2] = <<"0", "", "", "", "", "", "NDL", "60", "15.00">>

\* ---- C14 ----------------------------------------------------------------

KnownKinds == FieldKinds \cup {DC_SAMPLE_TIME}

\* C14: an event whose kind the callback has no branch for leaves the whole
\* state unchanged: no field of the in-progress row (timestamp and dirty
\* included) is modified, nothing is appended to the output and no error
\* state is entered.
C14_UnknownKindIgnored ==
    [][ (Delivered /\ LastEvent.type \notin KnownKinds) =>
            /\ current_sample' = current_sample
            /\ lines' = lines
            /\ rows' = rows
            /\ UNCHANGED <<pc, status, finished, out, err, exit_code>>
      ]_vars

C14_Witness ==
    /\ pc = "foreach"
    /\ Len(events) = 3
    /\ IsTime(events[1])
    /\ events[2].type = DC_SAMPLE_DEPTH
    /\ events[3].type = DC_SAMPLE_HEARTBEAT
    /\ current_sample.depth = events[2].value.depth
    /\ current_sample.dirty = 1
    /\ lines = <<Header>>
    /\ err = <<>>

\* ---- C16 ----------------------------------------------------------------

\* C16: between two callback invocations dirty is true if and only if at
\* least one Time event has been processed so far, and once true it never
\* becomes false again.
C16_DirtyIffTimeSeen ==
    /\ [](current_sample.dirty = 1 <=> NTimes(events) >= 1)
    /\ [][current_sample.dirty = 1 => current_sample'.dirty = 1]_vars

C16_Witness ==
    /\ pc = "foreach"
    /\ Len(events) = 4
    /\ ~IsTime(events[1])
    /\ IsTime(events[2])
    /\ IsTime(events[3])
    /\ ~IsTime(events[4])
    /\ current_sample.dirty = 1

\* ---- C17 ----------------------------------------------------------------

\* C17: exactly one row is in flight: between two events before finish(),
\* after k >= 1 Time events exactly k-1 rows have been emitted and the row in
\* progress holds the timestamp of the k-th Time event, and after none no row
\* has been emitted; a row is emitted whole, and only at a Time event or at
\* finish().
C17_OneRowInFlight ==
    /\ [](pc = "foreach" =>
            LET k == NTimes(events)
            IN  /\ k = 0 => rows = <<>>
                /\ k >= 1 =>
                      /\ Len(rows) = k - 1
                      /\ current_sample.time = TimePayloads(events)[k])
    /\ [][ (rows' # rows \/ lines' # lines) =>
              /\ \/ pc = "start" /\ rows' = rows /\ lines' = <<Header>>
                 \/ /\ rows' = Append(rows, current_sample)
                    /\ lines' = Append(lines, CsvLine(current_sample))
                    /\ Len(lines'[Len(lines')]) = 9
                    /\ \/ Delivered /\ IsTime(LastEvent)
                       \/ pc = "foreach" /\ pc' = "done"
         ]_vars

C17_Witness ==
    /\ pc = "foreach"
    /\ Len(events) = 4
    /\ NTimes(events) = 2
    /\ IsTime(events[1]) /\ IsTime(events[3])
    /\ Len(rows) = 1
    /\ rows[1].depth = 2000
    /\ current_sample.time = events[3].value.time
    /\ current_sample.temperature = 280

\* ---- C18 ----------------------------------------------------------------

\* C18: a field event of a known kind never appends to the output and
\* changes only the field(s) of its own kind: timestamp, dirty and the
\* fields of the other kinds stay as they were, dirty row or not.
C18_FieldEventFrame ==
    [][ (Delivered /\ LastEvent.type \in FieldKinds) =>
            /\ lines' = lines
            /\ rows' = rows
            /\ current_sample'.time = current_sample.time
            /\ current_sample'.dirty = current_sample.dirty
            /\ \A K \in FieldKinds \ {LastEvent.type} :
                  FieldOf(current_sample', K) = FieldOf(current_sample, K)
            /\ FieldOf(current_sample', LastEvent.type) =
                  PayloadOf(LastEvent, LastEvent.type)
      ]_vars

C18_Witness ==
    /\ pc = "foreach"
    /\ Len(events) = 3
    /\ events[1].type = DC_SAMPLE_PPO2
    /\ IsTime(events[2])
    /\ events[3].type = DC_SAMPLE_PPO2
    /\ current_sample.ppo2 = 121
    /\ current_sample.setpoint = -100
    /\ current_sample.dirty = 1
    /\ lines = <<Header>>

\* ---- C19 ----------------------------------------------------------------

RECURSIVE Feed(_, _)
\* The callback applied to the events of evs in order, starting from data.
Feed(evs, data) ==
    IF evs = <<>> THEN data
    ELSE Feed(Tail(evs),
              sample_callback(Head(evs).type, Head(evs).value, data))

\* The output file after the events of evs and finish().
Emitted(evs) ==
    LET data == Feed(evs, [outfile |-> [lines |-> <<Header>>, rows |-> <<>>],
                           current_sample |-> reset_sample_data])
    IN  finish(data.outfile, data.current_sample)

\* evs without the events that precede its first Time event.
StripLeading(evs) ==
    IF NTimes(evs) = 0 THEN <<>>
    ELSE SubSeq(evs, TimePos(evs, 1), Len(evs))

\* C19: field values supplied before the first Time event never reach the
\* output: the rows emitted for an event sequence are those emitted for the
\* sequence without the field events that precede its first Time event.
C19_LeadingFieldEventsDropped ==
    Finished =>
        /\ userdata.outfile = Emitted(StripLeading(events))
        /\ NTimes(events) >= 1 =>
              \A K \in FieldKinds :
                  KindIdx(events, 1, K) = {} =>
                      ColumnsOf(lines[2], K) = AbsentColumns(K)

C19_Witness ==
    /\ Finished
    /\ Len(events) = 3
    /\ events[1].type = DC_SAMPLE_DEPTH
    /\ events[2].type = DC_SAMPLE_DECO
    /\ IsTime(events[3]) /\ events[3].value.time = 1000
    /\ lines = <<Header, <<"1", "", "", "", "", "", "NDL", "0", "0.00">> >>

\* ---- C15 ----------------------------------------------------------------

\* The directory part of a path: everything up to its last '/'.
DirOf(path) ==
    LET slashes == {i \in 1..Len(path) : path[i] = "/"}
    IN  IF slashes = {} THEN <<>> ELSE SubSeq(path, 1, Max(slashes))

\* The file name of a path: everything after its last '/'.
NameOf(path) == SubSeq(path, Len(DirOf(path)) + 1, Len(path))

\* A file name without its extension.
StemOf(name) ==
    LET dots == {i \in 1..Len(name) : name[i] = "."}
    IN  IF dots = {} THEN name ELSE SubSeq(name, 1, Max(dots) - 1)

\* C15: the output file name is the input file name with its extension
\* replaced by .csv, or with .csv appended when it has none, in the same
\* directory as the input: the directory parts of the two paths are equal,
\* also when a directory holds a dot and the file name has no extension, and
\* when the path is longer than the buffer.
C15_SameDirectoryCsvExtension ==
    output_filename # <<>> =>
        /\ DirOf(output_filename) = DirOf(input_filename)
        /\ NameOf(output_filename) = StemOf(NameOf(input_filename)) \o DotCsv

\* ---- C20 ----------------------------------------------------------------

IsWritten(sample) ==
    sample.type \in {DC_SAMPLE_TIME, DC_SAMPLE_DEPTH, DC_SAMPLE_TEMPERATURE,
                     DC_SAMPLE_PO2}

\* The positions of the PO2 samples among the samples read so far.
Po2Idx == {i \in 1..Len(ds.samples) : ds.samples[i].type = DC_SAMPLE_PO2}

\* The positions, after the header, of the texts that end a line.
NewlineIdx == {i \in 2..Len(ds.out) : ds.out[i].end = "\n"}

\* The k-th smallest element of a set of positions, 0 for k = 0.
Kth(S, k) ==
    IF k = 0 THEN 0
    ELSE CHOOSE i \in S : Cardinality({j \in S : j <= i}) = k

\* The texts of the k-th data line.
DsLine(k) ==
    SubSeq(ds.out, IF k = 1 THEN 2 ELSE Kth(NewlineIdx, k - 1) + 1,
           Kth(NewlineIdx, k))

\* The samples that wrote into the k-th data line.
DsBuiltFrom(k) ==
    SelectSeq(SubSeq(ds.samples, Kth(Po2Idx, k - 1) + 1, Kth(Po2Idx, k)),
              IsWritten)

\* C20: divesoft2csv writes each sample at once and ends a data line only at
\* a PO2 sample: the number of ended data lines is the number of PO2
\* samples, whatever the number of Time samples, and a data line holds
\* exactly the four columns of the header only when it was built from one
\* Time, one Depth, one Temperature and one PO2 sample in that order.
C20_LinePerPo2Sample ==
    /\ Cardinality(NewlineIdx) = Cardinality(Po2Idx)
    /\ ds.out # <<>> =>
          Len(ds.out) =
              1 + Cardinality({i \in 1..Len(ds.samples) :
                                  IsWritten(ds.samples[i])})
    /\ \A k \in 1..Cardinality(NewlineIdx) :
          LET line == DsLine(k)
              from == DsBuiltFrom(k)
          IN  [i \in 1..Len(line) |-> line[i].field] =
                  <<"time", "depth", "temperature", "po2">>
              =>  /\ [i \in 1..Len(from) |-> from[i].type] =
                        <<DC_SAMPLE_TIME, DC_SAMPLE_DEPTH,
                          DC_SAMPLE_TEMPERATURE, DC_SAMPLE_PO2>>
                  /\ [i \in 1..4 |-> line[i].text] =
                        <<ToString(from[1].time), Fmt2(from[2].depth),
                          Fmt2(from[3].temperature), Fmt2(from[4].po2)>>

\* A PO2 sample, then Time, Depth, Temperature and PO2: two data lines, the
\* first of one column and without a time, the second of the four columns.
C20_Witness ==
    /\ ds.pc = "done"
    /\ Len(ds.samples) = 5
    /\ ds.samples[1].type = DC_SAMPLE_PO2
    /\ Cardinality(NewlineIdx) = 2
    /\ [i \in 1..Len(DsLine(1)) |-> DsLine(1)[i].text] = <<"1.40">>
    /\ [i \in 1..Len(DsLine(2)) |-> DsLine(2)[i].text] =
          <<"20", "12.50", "21.50", "1.21">>
    /\ [i \in 1..Len(DsLine(2)) |-> DsLine(2)[i].end] = <<",", ",", ",", "\n">>

====
